---- MODULE Spec2Model ----
(***************************************************************************)
(* Model of the DLX code generator (src/src/dlx/codegen.rs).               *)
(*                                                                         *)
(* The generator is a sequential, depth-first walk of the program tree.    *)
(* The tree is the input: it is supplied node by node, in the order the    *)
(* walk visits it, so that every program within the bounds is explored.    *)
(* The recursion of compile_expression is kept as an explicit stack of     *)
(* continuation frames.                                                    *)
(***************************************************************************)
EXTENDS Integers, Sequences, FiniteSets, TLC

(* ------------------------------ bounds -------------------------------- *)

\* The size of an input program: every top-level item, every parameter and
\* every expression node counts one.
MaxSize == 6

(* ------------------------- program constants -------------------------- *)

ZERO_REG == 0
FRAME_POINTER == 30
STACK_POINTER == 14
RETURN_REG == 31
RESULT_REG == 1

\* Scope::new: the first free frame offset of a scope.
FirstOffset == 8
\* The word pushed per call argument (compile_call).
ArgWord == 4

(* ------------------------------ inputs -------------------------------- *)

\* the identifiers of the input programs
Names == {"a", "b"}
\* the one numeric literal of the input programs
LitValue == 5

Prim(t) == <<"Primitive", t>>
VariableType(n) == <<"VariableType", n>>

(* --------------------------- integer widths --------------------------- *)

Pow16 == 65536

\* `x as i16`
AsI16(x) == LET m == x % Pow16 IN IF m >= 32768 THEN m - Pow16 ELSE m
\* `x as u16`
AsU16(x) == x % Pow16
\* u32 arithmetic wraps at 2^32, and every u32 of the generator is cast to 16
\* bits before it is used (lines 346, 539): the wrap does not change the low
\* 16 bits, so a u32 is kept as the integer it stands for modulo 2^32.
U32(x) == x

(* ------------------------------- types -------------------------------- *)

\* Type::size, for the types the type table can produce
TypeSize(t) ==
    CASE t = "Bool" -> 4
      [] t = "Int" -> 4
      [] t = "Unit" -> 0
      [] t = "BottomType" -> 0

\* the type table codegen fills in
TypeTable(p) ==
    CASE p = "IntType" -> "Int"
      [] p = "BoolType" -> "Bool"
      [] p = "UnitType" -> "Unit"
      [] p = "BottomType" -> "BottomType"

\* A check_type without the BottomType cases: only equal types pass
check_type_strict(input, expected) == input = expected

\* check_type: TRUE when the check passes
check_type(input, expected) ==
    ~(input # "BottomType" /\ expected # "BottomType" /\ input # expected)

(* ------------------------------- labels ------------------------------- *)

\* format!("L{}", n)
LabelName(n) == <<"L", n>>
ExitLabel == <<"exit", 0>>

\* A next_unique_label that formats the label and leaves the counter alone
next_unique_label_stuck(count) == <<count, LabelName(count)>>

\* CodeData::next_unique_label on a counter: <<the counter after, the label>>
next_unique_label(count) ==
    LET after == count + 1 IN <<after, LabelName(after - 1)>>

(* ------------------------------- scopes ------------------------------- *)

NoIdent == <<"None", 0>>
FnIdentId(i) == <<"Fn", i>>
VarIdentId(i) == <<"Var", i>>

\* Scope::new
NewScope(end_label) ==
    [functions |-> <<>>, vars |-> <<>>, next_offset |-> FirstOffset,
     ident_table |-> [n \in Names |-> NoIdent], loop_ends |-> <<>>,
     end_label |-> end_label]

\* HashMap::find_or_insert: the table after the call
FindOrInsert(table, name, ident) ==
    IF table[name] = NoIdent THEN [table EXCEPT ![name] = ident] ELSE table

\* An add_ident that compares only the kinds of the two identifiers
ShadowsByKind(table, name, ident) ==
    FindOrInsert(table, name, ident)[name][1] # ident[1]

\* Scope::add_ident: TRUE when the identifier shadows an existing one
Shadows(table, name, ident) ==
    FindOrInsert(table, name, ident)[name] # ident

\* Scope::get_ident over the chain local -> global. The result is
\* <<"Fn", function>>, <<"Var", variable>> or <<"NotFound", name>>.
LookupIn(scope, name) ==
    LET id == scope.ident_table[name] IN
    CASE id[1] = "Fn" -> <<"Fn", scope.functions[id[2] + 1]>>
      [] id[1] = "Var" -> <<"Var", scope.vars[id[2] + 1]>>
      [] OTHER -> <<"NotFound", name>>

\* A get_ident that asks the parent scope before the scope itself
get_ident_parent_first(chain, name) ==
    LET outer == LookupIn(chain[Len(chain)], name) IN
    IF outer[1] # "NotFound" THEN outer ELSE LookupIn(chain[1], name)

get_ident(chain, name) ==
    LET first == LookupIn(chain[1], name) IN
    IF first[1] # "NotFound" THEN first
    ELSE IF Len(chain) > 1 THEN LookupIn(chain[2], name)
    ELSE <<"NotFound", name>>

\* Ident::rtype
IdentRType(ident) == ident[2].rtype

\* resolve_type: <<"Ok", type>> or <<"NotFound", name>>
resolve_type(chain, type_value) ==
    IF type_value[1] = "VariableType"
    THEN LET ident == get_ident(chain, type_value[2]) IN
         IF ident[1] = "NotFound" THEN ident ELSE <<"Ok", IdentRType(ident)>>
    ELSE <<"Ok", TypeTable(type_value[2])>>

(* ---------------------------- declarations ---------------------------- *)

\* Function::new
NewFunction(name, params, rtype, location) ==
    [name |-> name, params |-> params,
     arg_types |-> [i \in 1..Len(params) |-> TypeTable(params[i][2])],
     rtype |-> TypeTable(rtype), location |-> location]

\* Variable::new
NewVariable(name, var_type, init, location) ==
    [name |-> name, var_type |-> var_type, rtype |-> TypeTable(var_type),
     init |-> init, location |-> location]

\* The parameter lists of the input programs, of at most n parameters
RECURSIVE ParamLists(_, _, _)
ParamLists(names, types, n) ==
    IF n <= 0 \/ types = {} \/ names = {} THEN {<<>>}
    ELSE LET shorter == ParamLists(names, types, n - 1) IN
         shorter \cup {Append(ps, <<nm, ty>>) :
                        ps \in {q \in shorter : Len(q) = n - 1},
                        nm \in names, ty \in types}

\* compile_global_fn, lines 338-352: the frame offsets given to the
\* parameters, indexed like the declaration (the loop runs in reverse).
RECURSIVE ParamAddrs(_, _, _)
ParamAddrs(params, i, next_param_addr) ==
    IF i = 0 THEN [j \in {} |-> 0]
    ELSE LET size == TypeSize(TypeTable(params[i][2])) IN
         (i :> AsI16(next_param_addr))
           @@ ParamAddrs(params, i - 1, U32(next_param_addr - size))

ParamOffsets(params) == ParamAddrs(params, Len(params), 0)

(* ------------------------------ grammars ------------------------------ *)

\* The rtype annotations the parser attaches to expressions and blocks:
\* a literal is an Int, a variable or a call carries the name to resolve,
\* break and return diverge, everything else is of the unit type.
Annots ==
    {Prim("IntType"), Prim("UnitType"), Prim("BottomType")}
        \cup {VariableType(n) : n \in Names}

\* The input programs are drawn from these grammars. A grammar gives the
\* top-level items, the names of functions (fnames), global lets (vnames),
\* parameters (pnames) and local lets (lnames), the names referred to
\* (refs), the types of parameters, returns and lets, the initializers of
\* global lets and the expression kinds. Within its grammar every program
\* of at most MaxSize is explored.
Declarations ==
    [items |-> {"fn", "let", "struct"}, fnames |-> Names, vnames |-> Names,
     pnames |-> Names, lnames |-> {}, refs |-> Names,
     ptypes |-> {"IntType"}, rtypes |-> {"UnitType"}, ltypes |-> {"IntType"},
     inits |-> {"None", "LitNumExpr", "Other"},
     kinds |-> {"var", "call", "assign"}]

Calls ==
    [items |-> {"fn"}, fnames |-> {"a"}, vnames |-> {},
     pnames |-> {"b"}, lnames |-> {}, refs |-> Names,
     ptypes |-> {"IntType", "UnitType"}, rtypes |-> {"IntType", "UnitType"},
     ltypes |-> {}, inits |-> {},
     kinds |-> {"call", "lit", "empty", "var", "asm"}]

Locals ==
    [items |-> {"fn"}, fnames |-> {"a"}, vnames |-> {},
     pnames |-> {"b"}, lnames |-> Names, refs |-> {"b"},
     ptypes |-> {"IntType"}, rtypes |-> {"UnitType"},
     ltypes |-> {"IntType", "UnitType"}, inits |-> {},
     kinds |-> {"let", "var", "loop"}]

Conditionals ==
    [items |-> {"fn", "let"}, fnames |-> {"a"}, vnames |-> {"b"},
     pnames |-> {}, lnames |-> {"b"}, refs |-> {"b"},
     ptypes |-> {}, rtypes |-> {"UnitType"}, ltypes |-> {"BoolType"},
     inits |-> {"None"}, kinds |-> {"if", "lit", "var", "return", "let"}]

Loops ==
    [items |-> {"fn", "let"}, fnames |-> {"a"}, vnames |-> {"b"},
     pnames |-> {}, lnames |-> {}, refs |-> {"b"},
     ptypes |-> {}, rtypes |-> {"UnitType"}, ltypes |-> {"BoolType"},
     inits |-> {"None"}, kinds |-> {"if", "loop", "break", "var"}]

Grammars == {Declarations, Calls, Locals, Conditionals, Loops}

(* ------------------------------- state -------------------------------- *)

VARIABLES
    pc,                   \* where codegen is: parse, globals, fns, body, done, failed
    err,                  \* the failure that ended the run: <<kind, details...>>
    global,               \* codegen's global scope
    local,                \* compile_global_fn's local scope
    instructions,         \* CodeData.instructions
    label_count,          \* CodeData.label_count
    log,                  \* what was reported through CodeData.logger
    idx,                  \* the loop index of the running `for` of codegen
    stack,                \* continuation frames of compile_expression
    ret,                  \* the rtype of the expression that just returned
    reserve_stack_index,  \* compile_global_fn's reserve_stack_index
    size,                 \* items, parameters and expression size read so far
    grammar,              \* the constructs the input program is written with
    output,               \* what codegen returned
    lastCall              \* the instructions of the last compile_call that returned

vars == <<pc, err, global, local, instructions, label_count, log, idx, stack,
          ret, reserve_stack_index, size, output, lastCall, grammar>>

NoRet == <<"NoRet", 0>>
AnyType == <<"AnyType", 0>>
NoOutput == <<"None", <<>>>>
\* What is kept of a compile_call that returned: the callee, and the places in
\* `instructions` of the stores, pointer advances, call and restore it pushed.
NoCall == [valid |-> FALSE, fn |-> NewFunction("", <<>>, "UnitType", ExitLabel),
           call_args |-> <<>>, begin |-> 0, stores |-> <<>>,
           advances |-> <<>>, jump |-> 0, restore |-> 0]

\* A continuation frame; the fields a kind does not use keep these values.
Frame0 ==
    [kind |-> "", expect |-> AnyType, last |-> Prim("UnitType"),
     else_label |-> ExitLabel, end_label |-> ExitLabel, has_else |-> FALSE,
     then_type |-> Prim("UnitType"), start_label |-> ExitLabel, name |-> "",
     call_args |-> <<>>, stack_offset |-> 0, waiting |-> FALSE,
     begin |-> 0, stores |-> <<>>, advances |-> <<>>,
     target |-> <<"Offset", 0>>]

BlockKinds == {"fnbody", "then", "else", "loop"}

Top == stack[Len(stack)]
Chain == <<local, global>>

Init ==
    /\ pc = "parse"
    /\ err = <<"">>
    /\ global = NewScope(ExitLabel)
    /\ local = NewScope(ExitLabel)
    /\ instructions = <<>>
    /\ label_count = 0
    /\ log = <<>>
    /\ idx = 0
    /\ stack = <<>>
    /\ ret = NoRet
    /\ reserve_stack_index = 0
    /\ size = 0
    /\ output = NoOutput
    /\ lastCall = NoCall
    /\ grammar \in Grammars

\* fail!(...): the run ends and codegen returns nothing
Abort(kind) ==
    /\ pc' = "failed"
    /\ err' = kind
    /\ UNCHANGED <<grammar, global, local, instructions, label_count, log, idx, stack,
                   ret, reserve_stack_index, size, output, lastCall>>

(* ----------------------- codegen: parse globals ----------------------- *)

\* codegen, lines 231-238: a function item
ParseFunctionItem(name, params, rtype) ==
    /\ pc = "parse"
    /\ "fn" \in grammar.items
    /\ size + 1 + Len(params) <= MaxSize
    /\ size' = size + 1 + Len(params)
    /\ LET fresh == next_unique_label(label_count)
           location == fresh[2]
           id == FnIdentId(Len(global.functions))
       IN  IF Shadows(global.ident_table, name, id)
           THEN /\ pc' = "failed"
                /\ err' = <<"IDENT_SHADOW_ERROR">>
                /\ label_count' = fresh[1]
                /\ UNCHANGED <<grammar, global, local, instructions, log, idx, stack, ret,
                               reserve_stack_index, output, lastCall>>
           ELSE /\ global' = [global EXCEPT
                      !.ident_table = FindOrInsert(@, name, id),
                      !.functions = Append(@, NewFunction(name, params, rtype, location))]
                /\ label_count' = fresh[1]
                /\ UNCHANGED <<grammar, pc, err, local, instructions, log, idx, stack, ret,
                               reserve_stack_index, output, lastCall>>

\* codegen, lines 239-241: a struct item
ParseStructItem ==
    /\ pc = "parse"
    /\ "struct" \in grammar.items
    /\ size < MaxSize
    /\ size' = size + 1
    /\ pc' = "failed"
    /\ err' = <<"unimplemented">>
    /\ label_count' = next_unique_label(label_count)[1]
    /\ UNCHANGED <<grammar, global, local, instructions, log, idx, stack, ret,
                   reserve_stack_index, output, lastCall>>

\* codegen, lines 242-246: a let item
ParseLetItem(name, var_type, init) ==
    /\ pc = "parse"
    /\ "let" \in grammar.items
    /\ size < MaxSize
    /\ size' = size + 1
    /\ LET fresh == next_unique_label(label_count)
           location == fresh[2]
           id == VarIdentId(Len(global.vars))
       IN  IF Shadows(global.ident_table, name, id)
           THEN /\ pc' = "failed"
                /\ err' = <<"IDENT_SHADOW_ERROR">>
                /\ label_count' = fresh[1]
                /\ UNCHANGED <<grammar, global, local, instructions, log, idx, stack, ret,
                               reserve_stack_index, output, lastCall>>
           ELSE /\ global' = [global EXCEPT
                      !.ident_table = FindOrInsert(@, name, id),
                      !.vars = Append(@, NewVariable(name, var_type, init,
                                                     <<"Label", location>>))]
                /\ label_count' = fresh[1]
                /\ UNCHANGED <<grammar, pc, err, local, instructions, log, idx, stack, ret,
                               reserve_stack_index, output, lastCall>>

\* A codegen that goes from the items to the functions, the global
\* variables left uncompiled
ParseDoneFunctionsFirst ==
    /\ pc = "parse"
    /\ pc' = "fns"
    /\ idx' = 0
    /\ UNCHANGED <<grammar, err, global, local, instructions, label_count, log, stack, ret,
                   reserve_stack_index, size, output, lastCall>>

\* codegen, line 231: the items are exhausted
ParseDone ==
    /\ pc = "parse"
    /\ pc' = "globals"
    /\ idx' = 0
    /\ UNCHANGED <<grammar, err, global, local, instructions, label_count, log, stack, ret,
                   reserve_stack_index, size, output, lastCall>>

(* ------------------------- compile_global_var ------------------------- *)

\* ast::PrimitiveType::size
AstPrimSize(t) == TypeSize(TypeTable(t))

\* A compile_global_var that allocates the variable without placing its label
GlobalVarCodeUnlabelled(var) ==
    IF var.location[1] # "Label" THEN <<"Fail", "ICE">>
    ELSE CASE var.init = "LitNumExpr" -> <<"Ok", << <<"AllocateWords", LitValue>> >> >>
           [] var.init = "Other" -> <<"Fail", "unimplemented">>
           [] var.init = "None" ->
                <<"Ok", << <<"AllocateSpace", AstPrimSize(var.var_type)>> >> >>

\* compile_global_var: <<"Ok", instructions>> or <<"Fail", error>>
GlobalVarCode(var) ==
    IF var.location[1] # "Label" THEN <<"Fail", "ICE">>
    ELSE LET label == <<"Label", var.location[2]>> IN
         CASE var.init = "LitNumExpr" ->
                <<"Ok", <<label, <<"AllocateWords", LitValue>>>>>>
           [] var.init = "Other" -> <<"Fail", "unimplemented">>
           [] var.init = "None" ->
                <<"Ok", <<label, <<"AllocateSpace", AstPrimSize(var.var_type)>>>>>>

\* codegen, lines 251-253
CompileGlobalVar ==
    /\ pc = "globals"
    /\ idx < Len(global.vars)
    /\ LET code == GlobalVarCode(global.vars[idx + 1]) IN
       IF code[1] = "Fail"
       THEN /\ pc' = "failed"
            /\ err' = <<code[2]>>
            \* the label is pushed before the initializer is looked at
            /\ instructions' = IF code[2] = "ICE" THEN instructions
                               ELSE Append(instructions,
                                      <<"Label", global.vars[idx + 1].location[2]>>)
            /\ UNCHANGED <<grammar, global, local, label_count, log, idx, stack, ret,
                           reserve_stack_index, size, output, lastCall>>
       ELSE /\ instructions' = instructions \o code[2]
            /\ idx' = idx + 1
            /\ UNCHANGED <<grammar, pc, err, global, local, label_count, log, stack, ret,
                           reserve_stack_index, size, output, lastCall>>

\* codegen, line 251: the loop over the global variables ends
GlobalVarsDone ==
    /\ pc = "globals"
    /\ idx = Len(global.vars)
    /\ pc' = "fns"
    /\ idx' = 0
    /\ UNCHANGED <<grammar, err, global, local, instructions, label_count, log, stack, ret,
                   reserve_stack_index, size, output, lastCall>>

(* -------------------------- compile_global_fn ------------------------- *)

\* compile_global_fn, lines 339-352: the parameters registered in the local
\* scope, last parameter first. <<"Ok", scope>> or <<"Fail", error>>.
RECURSIVE RegisterParams(_, _, _)
RegisterParams(scope, params, i) ==
    IF i = 0 THEN <<"Ok", scope>>
    ELSE LET name == params[i][1]
             var == NewVariable(name, params[i][2], "None",
                                <<"Offset", ParamOffsets(params)[i]>>)
             id == VarIdentId(Len(scope.vars))
         IN  IF Shadows(scope.ident_table, name, id)
             THEN <<"Fail", "IDENT_SHADOW_ERROR">>
             ELSE RegisterParams(
                      [scope EXCEPT !.ident_table = FindOrInsert(@, name, id),
                                    !.vars = Append(@, var)],
                      params, i - 1)

\* compile_global_fn, lines 323-330: the label and the prologue
Prologue(label) ==
    << <<"Label", label>>,
       <<"Store32", <<"Const", 0>>, STACK_POINTER, FRAME_POINTER>>,
       <<"AddSigned", FRAME_POINTER, STACK_POINTER, ZERO_REG>>,
       <<"Store32", <<"Const", 4>>, FRAME_POINTER, RETURN_REG>> >>

\* compile_global_fn, lines 371-377: the end label and the epilogue
Epilogue(end_label) ==
    << <<"Label", end_label>>,
       <<"Load32", RETURN_REG, <<"Const", 4>>, FRAME_POINTER>>,
       <<"AddSigned", STACK_POINTER, FRAME_POINTER, ZERO_REG>>,
       <<"Load32", FRAME_POINTER, <<"Const", 0>>, STACK_POINTER>>,
       <<"JumpR", RETURN_REG>> >>

\* compile_global_fn, lines 367-369: the instruction the placeholder becomes
ReserveStack(frame_size) ==
    <<"AddSignedValue", STACK_POINTER, STACK_POINTER, frame_size>>

\* codegen, lines 256-258, and compile_global_fn up to the call of
\* compile_block (lines 319-364)
CompileGlobalFn ==
    /\ pc = "fns"
    /\ idx < Len(global.functions)
    /\ LET fn == global.functions[idx + 1]
           fresh == next_unique_label(label_count)
           scope0 == NewScope(fresh[2])
           reg == RegisterParams(scope0, fn.params, Len(fn.params))
           pro == instructions \o Prologue(fn.location)
       IN  IF reg[1] = "Fail"
           THEN /\ pc' = "failed"
                /\ err' = <<reg[2]>>
                /\ instructions' = pro
                /\ label_count' = fresh[1]
                /\ UNCHANGED <<grammar, global, local, log, idx, stack, ret,
                               reserve_stack_index, size, output, lastCall>>
           ELSE /\ pc' = "body"
                /\ local' = reg[2]
                /\ label_count' = fresh[1]
                /\ reserve_stack_index' = Len(pro) + 1
                /\ instructions' = Append(pro, <<"Nop">>)
                /\ stack' = << [Frame0 EXCEPT !.kind = "fnbody"] >>
                /\ UNCHANGED <<grammar, err, global, log, idx, ret, size, output, lastCall>>

\* compile_global_fn, lines 366-377: the body's block has been compiled
FnEnd ==
    /\ pc = "body"
    /\ ret = NoRet
    /\ Top.kind = "fnbody"
    /\ LET frame_size == local.next_offset IN
       instructions' =
           [instructions EXCEPT ![reserve_stack_index] = ReserveStack(frame_size)]
             \o Epilogue(local.end_label)
    /\ stack' = <<>>
    /\ pc' = "fns"
    /\ idx' = idx + 1
    /\ UNCHANGED <<grammar, err, global, local, label_count, log, ret, reserve_stack_index,
                   size, output, lastCall>>

\* codegen, lines 256-260: the loop over the functions ends
CodegenReturn ==
    /\ pc = "fns"
    /\ idx = Len(global.functions)
    /\ pc' = "done"
    /\ output' = <<"Some", instructions>>
    /\ UNCHANGED <<grammar, err, global, local, instructions, label_count, log, idx, stack,
                   ret, reserve_stack_index, size, lastCall>>

(* ------------------------- compile_expression ------------------------- *)

\* An expression may be read from the input here: compile_block is at a
\* statement, or a handler is about to compile its operand.
CanStart ==
    /\ pc = "body"
    /\ ret = NoRet
    /\ size < MaxSize
    /\ \/ Top.kind \in BlockKinds
       \/ Top.kind \in {"ifcond", "ret", "assign"}
       \/ Top.kind = "callargs" /\ Top.waiting

\* The expression read carries the annotation its parent has read already.
Fits(frame, t) ==
    frame.kind \in BlockKinds \/ frame.expect = AnyType \/ frame.expect = t

\* compile_expression returns to the frame on top of stk: compile_block goes
\* on with the next statement, any other handler continues with `ret`.
Delivered(stk, t) ==
    IF stk[Len(stk)].kind \in BlockKinds
    THEN [stk EXCEPT ![Len(stk)].last = t]
    ELSE stk

RetAfter(stk, t) == IF stk[Len(stk)].kind \in BlockKinds THEN NoRet ELSE t

Pop(stk) == SubSeq(stk, 1, Len(stk) - 1)

\* A break that reports the diagnostic and goes on compiling
CompileBreakReportOnly ==
    /\ CanStart
    /\ "break" \in grammar.kinds
    /\ Fits(Top, Prim("BottomType"))
    /\ size' = size + 1
    /\ log' = IF local.loop_ends = <<>>
              THEN Append(log, <<"'break' outside of loop", size + 1>>)
              ELSE log
    /\ instructions' = IF local.loop_ends = <<>> THEN instructions
                       ELSE Append(instructions,
                                <<"Jump", local.loop_ends[Len(local.loop_ends)]>>)
    /\ stack' = Delivered(stack, Prim("BottomType"))
    /\ ret' = RetAfter(stack, Prim("BottomType"))
    /\ UNCHANGED <<grammar, pc, err, global, local, label_count, idx,
                   reserve_stack_index, output, lastCall>>

\* compile_expression, lines 392-400
CompileBreak ==
    /\ CanStart
    /\ "break" \in grammar.kinds
    /\ Fits(Top, Prim("BottomType"))
    /\ size' = size + 1
    /\ IF local.loop_ends = <<>>
       THEN /\ log' = Append(log, <<"'break' outside of loop", size + 1>>)
            /\ pc' = "failed"
            /\ err' = <<"fatal_error">>
            /\ UNCHANGED <<grammar, global, local, instructions, label_count, idx, stack,
                           ret, reserve_stack_index, output, lastCall>>
       ELSE /\ instructions' = Append(instructions,
                   <<"Jump", local.loop_ends[Len(local.loop_ends)]>>)
            /\ stack' = Delivered(stack, Prim("BottomType"))
            /\ ret' = RetAfter(stack, Prim("BottomType"))
            /\ UNCHANGED <<grammar, pc, err, global, local, label_count, log, idx,
                           reserve_stack_index, output, lastCall>>

\* compile_expression, lines 401-405: the operand is compiled first
CompileReturn ==
    /\ CanStart
    /\ "return" \in grammar.kinds
    /\ Fits(Top, Prim("BottomType"))
    /\ size' = size + 1
    /\ stack' = Append(stack, [Frame0 EXCEPT !.kind = "ret"])
    /\ UNCHANGED <<grammar, pc, err, global, local, instructions, label_count, log, idx,
                   ret, reserve_stack_index, output, lastCall>>

\* A return that jumps to the end label of the parent scope
ReturnDoneToParentEnd ==
    /\ pc = "body"
    /\ ret # NoRet
    /\ Top.kind = "ret"
    /\ instructions' = Append(instructions, <<"Jump", global.end_label>>)
    /\ stack' = Delivered(Pop(stack), Prim("BottomType"))
    /\ ret' = RetAfter(Pop(stack), Prim("BottomType"))
    /\ UNCHANGED <<grammar, pc, err, global, local, label_count, log, idx,
                   reserve_stack_index, size, output, lastCall>>

\* compile_expression, lines 403-404: the operand has been compiled
ReturnDone ==
    /\ pc = "body"
    /\ ret # NoRet
    /\ Top.kind = "ret"
    /\ instructions' = Append(instructions, <<"Jump", local.end_label>>)
    /\ stack' = Delivered(Pop(stack), Prim("BottomType"))
    /\ ret' = RetAfter(Pop(stack), Prim("BottomType"))
    /\ UNCHANGED <<grammar, pc, err, global, local, label_count, log, idx,
                   reserve_stack_index, size, output, lastCall>>

\* A load that addresses a global's label from the frame pointer
LoadFromFrameBase(location) ==
    IF location[1] = "Label"
    THEN <<"Load32", RESULT_REG, <<"Unknown", location[2]>>, FRAME_POINTER>>
    ELSE <<"Load32", RESULT_REG, <<"Const", location[2]>>, FRAME_POINTER>>

\* compile_expression, lines 413-425: the load from a variable's location
LoadFrom(location) ==
    IF location[1] = "Label"
    THEN <<"Load32", RESULT_REG, <<"Unknown", location[2]>>, ZERO_REG>>
    ELSE <<"Load32", RESULT_REG, <<"Const", location[2]>>, FRAME_POINTER>>

\* compile_expression, lines 408-426
CompileVariable(name) ==
    /\ CanStart
    /\ "var" \in grammar.kinds
    /\ Fits(Top, VariableType(name))
    /\ size' = size + 1
    /\ LET ident == get_ident(Chain, name) IN
       IF ident[1] # "Var"
       THEN /\ pc' = "failed"
            /\ err' = IF ident[1] = "NotFound"
                      THEN <<"IDENT_NOT_FOUND_ERROR", name>>
                      ELSE <<"ICE: Functions can't be treated as variables yet">>
            /\ UNCHANGED <<grammar, global, local, instructions, label_count, log, idx,
                           stack, ret, reserve_stack_index, output, lastCall>>
       ELSE /\ instructions' = Append(instructions, LoadFrom(ident[2].location))
            /\ stack' = Delivered(stack, VariableType(name))
            /\ ret' = RetAfter(stack, VariableType(name))
            /\ UNCHANGED <<grammar, pc, err, global, local, label_count, log, idx,
                           reserve_stack_index, output, lastCall>>

\* compile_expression, lines 427-429
CompileLitNum ==
    /\ CanStart
    /\ "lit" \in grammar.kinds
    /\ Fits(Top, Prim("IntType"))
    /\ size' = size + 1
    /\ instructions' = Append(instructions,
           <<"AddSignedValue", RESULT_REG, ZERO_REG, AsI16(LitValue)>>)
    /\ stack' = Delivered(stack, Prim("IntType"))
    /\ ret' = RetAfter(stack, Prim("IntType"))
    /\ UNCHANGED <<grammar, pc, err, global, local, label_count, log, idx,
                   reserve_stack_index, output, lastCall>>

\* compile_expression, lines 430-432
CompileAsmOp ==
    /\ CanStart
    /\ "asm" \in grammar.kinds
    /\ Fits(Top, Prim("UnitType"))
    /\ size' = size + 1
    /\ instructions' = Append(instructions, <<"RawAsm", "inner">>)
    /\ stack' = Delivered(stack, Prim("UnitType"))
    /\ ret' = RetAfter(stack, Prim("UnitType"))
    /\ UNCHANGED <<grammar, pc, err, global, local, label_count, log, idx,
                   reserve_stack_index, output, lastCall>>

\* compile_expression, line 433
CompileEmpty ==
    /\ CanStart
    /\ "empty" \in grammar.kinds
    /\ Fits(Top, Prim("UnitType"))
    /\ size' = size + 1
    /\ stack' = Delivered(stack, Prim("UnitType"))
    /\ ret' = RetAfter(stack, Prim("UnitType"))
    /\ UNCHANGED <<grammar, pc, err, global, local, instructions, label_count, log, idx,
                   reserve_stack_index, output, lastCall>>

(* --------------------- compile_let, compile_assign -------------------- *)

\* compile_assign, lines 568-578: the store to the target's location
StoreTo(location) ==
    IF location[1] = "Label"
    THEN <<"Store32", <<"Unknown", location[2]>>, ZERO_REG, RESULT_REG>>
    ELSE <<"Store32", <<"Const", location[2]>>, FRAME_POINTER, RESULT_REG>>

\* A compile_let that reserves one word for every variable, whatever its type
AllocateWordPerLet(scope, name, var_type, id) ==
    LET var == NewVariable(name, var_type, "None", <<"Offset", scope.next_offset>>) IN
    [scope EXCEPT !.ident_table = FindOrInsert(@, name, id),
                  !.next_offset = AsI16(@ + ArgWord),
                  !.vars = Append(@, var)]

\* compile_let, lines 547-550: the scope with the variable allocated
Allocate(scope, name, var_type, id) ==
    LET var == NewVariable(name, var_type, "None", <<"Offset", scope.next_offset>>) IN
    [scope EXCEPT !.ident_table = FindOrInsert(@, name, id),
                  !.next_offset = AsI16(@ + TypeSize(var.rtype)),
                  !.vars = Append(@, var)]

\* compile_let; with an assignment, up to compile_assign's call of
\* compile_expression (line 567)
CompileLet(name, var_type, has_assignment) ==
    /\ CanStart
    /\ "let" \in grammar.kinds
    /\ Fits(Top, Prim("UnitType"))
    /\ size' = size + 1
    /\ LET id == VarIdentId(Len(local.vars)) IN
       IF Shadows(local.ident_table, name, id)
       THEN /\ pc' = "failed"
            /\ err' = <<"IDENT_SHADOW_ERROR">>
            /\ UNCHANGED <<grammar, global, local, instructions, label_count, log, idx,
                           stack, ret, reserve_stack_index, output, lastCall>>
       ELSE /\ local' = Allocate(local, name, var_type, id)
            /\ IF has_assignment
               THEN /\ stack' = Append(stack,
                         [Frame0 EXCEPT !.kind = "assign",
                             !.target = get_ident(<<local', global>>, name)[2].location])
                    /\ ret' = ret
               ELSE /\ stack' = Delivered(stack, Prim("UnitType"))
                    /\ ret' = RetAfter(stack, Prim("UnitType"))
            /\ UNCHANGED <<grammar, pc, err, global, instructions, label_count, log, idx,
                           reserve_stack_index, output, lastCall>>

\* compile_assign, lines 559-567
CompileAssign(target) ==
    /\ CanStart
    /\ "assign" \in grammar.kinds
    /\ Fits(Top, Prim("UnitType"))
    /\ size' = size + 1
    /\ LET ident == get_ident(Chain, target) IN
       IF ident[1] # "Var"
       THEN /\ pc' = "failed"
            /\ err' = IF ident[1] = "NotFound"
                      THEN <<"IDENT_NOT_FOUND_ERROR", target>>
                      ELSE <<"EXPECTED_VAR_FOUND_FUNCTION_ERROR">>
            /\ UNCHANGED <<grammar, global, local, instructions, label_count, log, idx,
                           stack, ret, reserve_stack_index, output, lastCall>>
       ELSE /\ stack' = Append(stack, [Frame0 EXCEPT !.kind = "assign",
                                           !.target = ident[2].location])
            /\ UNCHANGED <<grammar, pc, err, global, local, instructions, label_count, log,
                           idx, ret, reserve_stack_index, output, lastCall>>

\* compile_assign, lines 568-578: the right-hand side has been compiled
AssignDone ==
    /\ pc = "body"
    /\ ret # NoRet
    /\ Top.kind = "assign"
    /\ instructions' = Append(instructions, StoreTo(Top.target))
    /\ stack' = Delivered(Pop(stack), Prim("UnitType"))
    /\ ret' = RetAfter(Pop(stack), Prim("UnitType"))
    /\ UNCHANGED <<grammar, pc, err, global, local, label_count, log, idx,
                   reserve_stack_index, size, output, lastCall>>

(* ----------------------------- compile_if ----------------------------- *)

\* compile_if, lines 437-442: the condition's type is checked, then the
\* condition is compiled. cond_rtype is if_statement.condition.rtype.
CompileIf(has_else, cond_rtype) ==
    /\ CanStart
    /\ "if" \in grammar.kinds
    /\ size' = size + 1
    /\ LET cond_type == resolve_type(Chain, cond_rtype) IN
       IF cond_type[1] # "Ok"
       THEN /\ pc' = "failed"
            /\ err' = <<"IDENT_NOT_FOUND_ERROR", cond_type[2]>>
            /\ UNCHANGED <<grammar, global, local, instructions, label_count, log, idx,
                           stack, ret, reserve_stack_index, output, lastCall>>
       ELSE IF ~check_type(cond_type[2], "Bool")
       THEN /\ pc' = "failed"
            /\ err' = <<"INCORRECT TYPE", "Bool", cond_type[2]>>
            /\ UNCHANGED <<grammar, global, local, instructions, label_count, log, idx,
                           stack, ret, reserve_stack_index, output, lastCall>>
       ELSE /\ stack' = Append(stack, [Frame0 EXCEPT !.kind = "ifcond",
                                           !.expect = cond_rtype,
                                           !.has_else = has_else])
            /\ UNCHANGED <<grammar, pc, err, global, local, instructions, label_count, log,
                           idx, ret, reserve_stack_index, output, lastCall>>

\* compile_if, lines 444-455: the condition has been compiled
IfCondDone ==
    /\ pc = "body"
    /\ ret # NoRet
    /\ Top.kind = "ifcond"
    /\ LET first == next_unique_label(label_count)
           second == next_unique_label(first[1])
           else_label == first[2]
           end_label == IF Top.has_else THEN second[2] ELSE else_label
       IN  /\ label_count' = IF Top.has_else THEN second[1] ELSE first[1]
           /\ instructions' = Append(instructions,
                                     <<"JumpIfZero", RESULT_REG, else_label>>)
           /\ stack' = Append(Pop(stack),
                  [Frame0 EXCEPT !.kind = "then", !.has_else = Top.has_else,
                                 !.else_label = else_label, !.end_label = end_label])
    /\ ret' = NoRet
    /\ UNCHANGED <<grammar, pc, err, global, local, log, idx, reserve_stack_index, size,
                   output, lastCall>>

\* compile_if, lines 456-479, up to the else block's compile_block: the then
\* block has been compiled. else_rtype is the else block's rtype().
ThenDone(else_rtype) ==
    /\ pc = "body"
    /\ ret = NoRet
    /\ Top.kind = "then"
    /\ ~Top.has_else => else_rtype = Prim("UnitType")
    /\ LET then_rtype == resolve_type(Chain, Top.last)
           else_type == resolve_type(Chain, else_rtype)
       IN
       IF then_rtype[1] # "Ok"
       THEN Abort(<<"IDENT_NOT_FOUND_ERROR", then_rtype[2]>>)
       ELSE IF Top.has_else
       THEN IF else_type[1] # "Ok"
            THEN Abort(<<"IDENT_NOT_FOUND_ERROR", else_type[2]>>)
            ELSE IF ~check_type(else_type[2], then_rtype[2])
            THEN Abort(<<"INCORRECT TYPE", then_rtype[2], else_type[2]>>)
            ELSE /\ instructions' = instructions \o
                       << <<"Jump", Top.end_label>>, <<"Label", Top.else_label>> >>
                 /\ stack' = Append(Pop(stack),
                        [Frame0 EXCEPT !.kind = "else", !.expect = else_rtype,
                                       !.end_label = Top.end_label,
                                       !.then_type = Top.last])
                 /\ UNCHANGED <<grammar, pc, err, global, local, label_count, log, idx, ret,
                                reserve_stack_index, size, output, lastCall>>
       ELSE IF ~check_type(then_rtype[2], "Unit")
            THEN Abort(<<"INCORRECT TYPE", "Unit", then_rtype[2]>>)
            ELSE /\ Fits(stack[Len(stack) - 1], Top.last)
                 /\ instructions' = Append(instructions, <<"Label", Top.end_label>>)
                 /\ stack' = Delivered(Pop(stack), Top.last)
                 /\ ret' = RetAfter(Pop(stack), Top.last)
                 /\ UNCHANGED <<grammar, pc, err, global, local, label_count, log, idx,
                                reserve_stack_index, size, output, lastCall>>

\* compile_if, lines 469-479: the else block has been compiled
ElseDone ==
    /\ pc = "body"
    /\ ret = NoRet
    /\ Top.kind = "else"
    /\ Top.last = Top.expect
    /\ Fits(stack[Len(stack) - 1], Top.then_type)
    /\ instructions' = Append(instructions, <<"Label", Top.end_label>>)
    /\ stack' = Delivered(Pop(stack), Top.then_type)
    /\ ret' = RetAfter(Pop(stack), Top.then_type)
    /\ UNCHANGED <<grammar, pc, err, global, local, label_count, log, idx,
                   reserve_stack_index, size, output, lastCall>>

(* ---------------------------- compile_loop ---------------------------- *)

\* compile_loop, lines 482-494. body_rtype is loop_statement.body.rtype().
CompileLoop(body_rtype) ==
    /\ CanStart
    /\ "loop" \in grammar.kinds
    /\ Fits(Top, Prim("UnitType"))
    /\ size' = size + 1
    /\ LET body_type == resolve_type(Chain, body_rtype)
           first == next_unique_label(label_count)
           second == next_unique_label(first[1])
           start_label == first[2]
           end_label == second[2]
       IN
       IF body_type[1] # "Ok"
       THEN /\ pc' = "failed"
            /\ err' = <<"IDENT_NOT_FOUND_ERROR", body_type[2]>>
            /\ UNCHANGED <<grammar, global, local, instructions, label_count, log, idx,
                           stack, ret, reserve_stack_index, output, lastCall>>
       ELSE IF ~check_type(body_type[2], "Unit")
       THEN /\ pc' = "failed"
            /\ err' = <<"INCORRECT TYPE", "Unit", body_type[2]>>
            /\ UNCHANGED <<grammar, global, local, instructions, label_count, log, idx,
                           stack, ret, reserve_stack_index, output, lastCall>>
       ELSE /\ label_count' = second[1]
            /\ instructions' = Append(instructions, <<"Label", start_label>>)
            /\ local' = [local EXCEPT !.loop_ends = Append(@, end_label)]
            /\ stack' = Append(stack, [Frame0 EXCEPT !.kind = "loop",
                                           !.expect = body_rtype,
                                           !.start_label = start_label])
            /\ UNCHANGED <<grammar, pc, err, global, log, idx, ret, reserve_stack_index,
                           output, lastCall>>

\* A compile_loop that reads the end label and leaves it on the stack
LoopDonePeek ==
    /\ pc = "body"
    /\ ret = NoRet
    /\ Top.kind = "loop"
    /\ Top.last = Top.expect
    /\ IF local.loop_ends = <<>>
       THEN Abort(<<"ICE: Missing label after loop">>)
       ELSE /\ instructions' = instructions \o
                  << <<"Jump", Top.start_label>>,
                     <<"Label", local.loop_ends[Len(local.loop_ends)]>> >>
            /\ stack' = Delivered(Pop(stack), Prim("UnitType"))
            /\ ret' = RetAfter(Pop(stack), Prim("UnitType"))
            /\ UNCHANGED <<grammar, pc, err, global, local, label_count, log, idx,
                           reserve_stack_index, size, output, lastCall>>

\* compile_loop, lines 496-501: the body has been compiled
LoopDone ==
    /\ pc = "body"
    /\ ret = NoRet
    /\ Top.kind = "loop"
    /\ Top.last = Top.expect
    /\ IF local.loop_ends = <<>>
       THEN Abort(<<"ICE: Missing label after loop">>)
       ELSE /\ instructions' = instructions \o
                  << <<"Jump", Top.start_label>>,
                     <<"Label", local.loop_ends[Len(local.loop_ends)]>> >>
            /\ local' = [local EXCEPT !.loop_ends = SubSeq(@, 1, Len(@) - 1)]
            /\ stack' = Delivered(Pop(stack), Prim("UnitType"))
            /\ ret' = RetAfter(Pop(stack), Prim("UnitType"))
            /\ UNCHANGED <<grammar, pc, err, global, label_count, log, idx,
                           reserve_stack_index, size, output, lastCall>>

(* ---------------------------- compile_call ---------------------------- *)

\* compile_call, lines 530-532: the first argument whose type check fails,
\* 0 when all pass
RECURSIVE FirstMismatch(_, _, _)
FirstMismatch(call_args, arg_types, i) ==
    IF i > Len(call_args) \/ i > Len(arg_types) THEN 0
    ELSE IF ~check_type(call_args[i], arg_types[i]) THEN i
    ELSE FirstMismatch(call_args, arg_types, i + 1)

\* compile_call, lines 515-516: what is pushed for one argument
PushArg ==
    << <<"Store32", <<"Const", 0>>, STACK_POINTER, RESULT_REG>>,
       <<"AddUnsignedValue", STACK_POINTER, STACK_POINTER, ArgWord>> >>

\* compile_call, lines 535-539: the call and the restore of the stack
CallAndRestore(location, stack_offset) ==
    << <<"JumpStore", location>>,
       <<"SubUnsignedValue", STACK_POINTER, STACK_POINTER, AsU16(stack_offset)>> >>

\* compile_call, lines 504-506
CompileCall(name) ==
    /\ CanStart
    /\ "call" \in grammar.kinds
    /\ Fits(Top, VariableType(name))
    /\ size' = size + 1
    /\ stack' = Append(stack, [Frame0 EXCEPT !.kind = "callargs", !.name = name,
                                             !.begin = Len(instructions) + 1])
    /\ UNCHANGED <<grammar, pc, err, global, local, instructions, label_count, log, idx,
                   ret, reserve_stack_index, output, lastCall>>

\* compile_call, lines 507-513: the loop reads the next argument.
\* arg_rtype is arg.rtype.
CallArg(arg_rtype) ==
    /\ pc = "body"
    /\ ret = NoRet
    /\ size < MaxSize
    /\ Top.kind = "callargs"
    /\ ~Top.waiting
    /\ LET arg_type == resolve_type(Chain, arg_rtype) IN
       IF arg_type[1] # "Ok"
       THEN Abort(<<"IDENT_NOT_FOUND_ERROR", arg_type[2]>>)
       ELSE /\ stack' = [stack EXCEPT ![Len(stack)] =
                  [@ EXCEPT !.call_args = Append(@, arg_type[2]),
                            !.expect = arg_rtype, !.waiting = TRUE]]
            /\ UNCHANGED <<grammar, pc, err, global, local, instructions, label_count, log,
                           idx, ret, reserve_stack_index, size, output, lastCall>>

\* compile_call, lines 514-517: the argument has been compiled
CallArgDone ==
    /\ pc = "body"
    /\ ret # NoRet
    /\ Top.kind = "callargs"
    /\ LET arg_size == TypeSize(Top.call_args[Len(Top.call_args)]) IN
       /\ instructions' = instructions \o PushArg
       /\ stack' = [stack EXCEPT ![Len(stack)] =
              [@ EXCEPT !.stack_offset = U32(@ + arg_size),
                        !.waiting = FALSE,
                        !.stores = Append(@, Len(instructions) + 1),
                        !.advances = Append(@, Len(instructions) + 2)]]
    /\ ret' = NoRet
    /\ UNCHANGED <<grammar, pc, err, global, local, label_count, log, idx,
                   reserve_stack_index, size, output, lastCall>>

\* compile_call, lines 520-540: the arguments are exhausted
CallDone ==
    /\ pc = "body"
    /\ ret = NoRet
    /\ Top.kind = "callargs"
    /\ ~Top.waiting
    /\ LET ident == get_ident(Chain, Top.name)
           function == ident[2]
           bad == FirstMismatch(Top.call_args, function.arg_types, 1)
       IN
       IF ident[1] = "NotFound"
       THEN Abort(<<"IDENT_NOT_FOUND_ERROR", Top.name>>)
       ELSE IF ident[1] = "Var"
       THEN Abort(<<"ERROR_EXPECTED_FUNCTION_FOUND_VAR">>)
       ELSE IF Len(Top.call_args) # Len(function.arg_types)
       THEN Abort(<<"INCORRECT NUMBER OF ARGUMENTS">>)
       ELSE IF bad # 0
       THEN Abort(<<"INCORRECT TYPE", function.arg_types[bad], Top.call_args[bad]>>)
       ELSE /\ Fits(stack[Len(stack) - 1], VariableType(Top.name))
            /\ instructions' =
                   instructions \o CallAndRestore(function.location, Top.stack_offset)
            /\ lastCall' = [valid |-> TRUE, fn |-> function,
                            call_args |-> Top.call_args, begin |-> Top.begin,
                            stores |-> Top.stores,
                            advances |-> Top.advances,
                            jump |-> Len(instructions) + 1,
                            restore |-> Len(instructions) + 2]
            /\ stack' = Delivered(Pop(stack), VariableType(Top.name))
            /\ ret' = RetAfter(Pop(stack), VariableType(Top.name))
            /\ UNCHANGED <<grammar, pc, err, global, local, label_count, log, idx,
                           reserve_stack_index, size, output>>

(* --------------------------- specification ---------------------------- *)

Next ==
    \/ \E name \in grammar.fnames, rtype \in grammar.rtypes,
          params \in ParamLists(grammar.pnames, grammar.ptypes, MaxSize - size - 1) :
           ParseFunctionItem(name, params, rtype)
    \/ ParseStructItem
    \/ \E name \in grammar.vnames, var_type \in grammar.ltypes, init \in grammar.inits :
           ParseLetItem(name, var_type, init)
    \/ ParseDone
    \/ CompileGlobalVar
    \/ GlobalVarsDone
    \/ CompileGlobalFn
    \/ FnEnd
    \/ CodegenReturn
    \/ CompileBreak
    \/ CompileReturn
    \/ ReturnDone
    \/ \E name \in grammar.refs : CompileVariable(name)
    \/ CompileLitNum
    \/ CompileAsmOp
    \/ CompileEmpty
    \/ \E name \in grammar.lnames, var_type \in grammar.ltypes,
          has_assignment \in BOOLEAN :
           CompileLet(name, var_type, has_assignment)
    \/ \E target \in grammar.refs : CompileAssign(target)
    \/ AssignDone
    \/ \E has_else \in BOOLEAN, cond_rtype \in Annots : CompileIf(has_else, cond_rtype)
    \/ IfCondDone
    \/ \E else_rtype \in Annots : ThenDone(else_rtype)
    \/ ElseDone
    \/ \E body_rtype \in Annots : CompileLoop(body_rtype)
    \/ LoopDone
    \/ \E name \in grammar.refs : CompileCall(name)
    \/ \E arg_rtype \in Annots : CallArg(arg_rtype)
    \/ CallArgDone
    \/ CallDone

Spec == Init /\ [][Next]_vars

(* ======================================================================= *)
(*                               properties                                *)
(* ======================================================================= *)

\* What an instruction adds to the stack pointer when it runs. A call leaves
\* the stack pointer as it found it: the callee's epilogue restores it from
\* the frame pointer, which the prologue set to the stack pointer at entry.
SPEffect(ins) ==
    IF ins[1] = "AddUnsignedValue" /\ ins[2] = STACK_POINTER /\ ins[3] = STACK_POINTER
    THEN ins[4]
    ELSE IF ins[1] = "SubUnsignedValue" /\ ins[2] = STACK_POINTER
            /\ ins[3] = STACK_POINTER
    THEN 0 - ins[4]
    ELSE 0

\* The stack pointer after instructions from..to have run, relative to its
\* value before.
RECURSIVE SPAfter(_, _)
SPAfter(from, to) ==
    IF to < from THEN 0 ELSE SPAfter(from, to - 1) + SPEffect(instructions[to])

RECURSIVE SumAt(_, _)
SumAt(places, i) ==
    IF i = 0 THEN 0 ELSE SumAt(places, i - 1) + instructions[places[i]][4]

\* C1: for every call compiled by compile_call, the amount the restore
\* instruction after the call subtracts from the stack pointer equals the sum
\* of the amounts the per-argument advances added to it.
C1_StackPointerRestored ==
    lastCall.valid =>
        /\ instructions[lastCall.restore][1] = "SubUnsignedValue"
        /\ instructions[lastCall.restore][4]
               = SumAt(lastCall.advances, Len(lastCall.advances))

\* The address, relative to the stack pointer before the call, at which the
\* call site stored argument i
ArgStoredAt(i) == SPAfter(lastCall.begin, lastCall.stores[i] - 1)

\* The callee's frame pointer: the stack pointer when the call is made
CalleeFramePointer == SPAfter(lastCall.begin, lastCall.jump - 1)

OneWordParams(fn) == \A i \in 1..Len(fn.arg_types) : TypeSize(fn.arg_types[i]) = ArgWord

\* C2: for a function of n one-word parameters, the address frame pointer +
\* FrameOffset(parameter i) is the address at which the call site stored
\* argument i, for every i in 1..n.
C2_CallerCalleeAgree ==
    (lastCall.valid /\ OneWordParams(lastCall.fn)) =>
        \A i \in 1..Len(lastCall.fn.params) :
            CalleeFramePointer + ParamOffsets(lastCall.fn.params)[i] = ArgStoredAt(i)

\* The variables of the local scope made for parameters come first.
ParamCount == Len(global.functions[idx + 1].params)

\* C3: in a function's local scope every parameter has a strictly negative
\* frame offset, every let binding has a frame offset >= 8, and no variable
\* has an offset in 0..7.
C3_FrameOffsetRanges ==
    pc = "body" =>
        \A i \in 1..Len(local.vars) :
            LET offset == local.vars[i].location[2] IN
            /\ local.vars[i].location[1] = "Offset"
            /\ i <= ParamCount => offset < 0
            /\ i > ParamCount => offset >= FirstOffset
            /\ ~(offset \in 0..(FirstOffset - 1))


\* The function whose body was compiled last, once compile_global_fn returned
FnCompiled == pc \in {"fns", "done"} /\ idx >= 1

RECURSIVE LetBytes(_, _)
\* The total size of the variables of lets after the first `skip`
LetBytes(lets, skip) ==
    IF Len(lets) <= skip THEN 0
    ELSE LetBytes(SubSeq(lets, 1, Len(lets) - 1), skip)
           + TypeSize(lets[Len(lets)].rtype)

\* C4: the placeholder pushed as the last instruction of the prologue is,
\* once the body is compiled, an instruction advancing the stack pointer by
\* 8 + S, S the total size of the let bindings of the body, nested ones
\* included.
C4_FrameSizePatched ==
    /\ pc = "body" =>
           /\ instructions[reserve_stack_index] = <<"Nop">>
           /\ instructions[reserve_stack_index - 4]
                  = <<"Label", global.functions[idx + 1].location>>
    /\ FnCompiled =>
           LET fn == global.functions[idx]
               S == LetBytes(local.vars, Len(fn.params))
           IN  /\ instructions[reserve_stack_index - 4] = <<"Label", fn.location>>
               /\ instructions[reserve_stack_index]
                      = <<"AddSignedValue", STACK_POINTER, STACK_POINTER, 8 + S>>

\* A compiled function with two lets, of which one, initialized, is inside a
\* loop: its store lies between the loop's start label and its back-jump.
C4_Witness ==
    /\ FnCompiled
    /\ Len(local.vars) - Len(global.functions[idx].params) >= 2
    /\ LetBytes(local.vars, Len(global.functions[idx].params)) > 0
    /\ \E i, j, k \in 1..Len(instructions) :
           /\ i < j /\ j < k
           /\ instructions[i][1] = "Label"
           /\ instructions[j][1] = "Store32"
           /\ instructions[j][2][1] = "Const" /\ instructions[j][2][2] >= FirstOffset
           /\ instructions[k][1] = "Jump" /\ instructions[k][2] = instructions[i][2]

\* A scope binds the name: one of its functions or variables carries it
Binds(scope, name) ==
    \/ \E i \in 1..Len(scope.vars) : scope.vars[i].name = name
    \/ \E i \in 1..Len(scope.functions) : scope.functions[i].name = name

RepeatsAName(params) ==
    \E i, j \in 1..Len(params) : i < j /\ params[i][1] = params[j][1]

\* C5: a step that binds, in a scope, a name the scope binds already (a
\* top-level fn or let, a parameter, a local let at any depth) fails with the
\* shadowing error and codegen returns nothing; a local let of a name bound
\* only in the global scope does not fail.
C5_ShadowingRejected ==
    [][ /\ pc = "parse" =>
            /\ \A name \in grammar.fnames, rtype \in grammar.rtypes,
                  params \in ParamLists(grammar.pnames, grammar.ptypes,
                                        MaxSize - size - 1) :
                   ParseFunctionItem(name, params, rtype) =>
                       IF Binds(global, name)
                       THEN /\ pc' = "failed" /\ err'[1] = "IDENT_SHADOW_ERROR"
                            /\ output' = NoOutput
                       ELSE pc' = "parse"
            /\ \A name \in grammar.vnames, var_type \in grammar.ltypes,
                  init \in grammar.inits :
                   ParseLetItem(name, var_type, init) =>
                       IF Binds(global, name)
                       THEN /\ pc' = "failed" /\ err'[1] = "IDENT_SHADOW_ERROR"
                            /\ output' = NoOutput
                       ELSE pc' = "parse"
        /\ CompileGlobalFn =>
               IF RepeatsAName(global.functions[idx + 1].params)
               THEN /\ pc' = "failed" /\ err'[1] = "IDENT_SHADOW_ERROR"
                    /\ output' = NoOutput
               ELSE pc' = "body"
        /\ pc = "body" =>
               \A name \in grammar.lnames, var_type \in grammar.ltypes,
                  has_assignment \in BOOLEAN :
                   CompileLet(name, var_type, has_assignment) =>
                       IF Binds(local, name)
                       THEN /\ pc' = "failed" /\ err'[1] = "IDENT_SHADOW_ERROR"
                            /\ output' = NoOutput
                       ELSE pc' = "body" /\ Binds(local', name)
      ]_vars

\* A let inside a loop of a function body was rejected as shadowing, and
\* the global scope binds a name the function's scope was allowed to rebind.
C5_Witness ==
    /\ pc = "failed"
    /\ err[1] = "IDENT_SHADOW_ERROR"
    /\ Len(stack) >= 2
    /\ Top.kind = "loop"
    /\ Len(local.vars) >= 2

\* The variable of the scope that carries the name
VarNamed(scope, name) ==
    scope.vars[CHOOSE i \in 1..Len(scope.vars) : scope.vars[i].name = name]

HasVar(scope, name) == \E i \in 1..Len(scope.vars) : scope.vars[i].name = name

\* C6: get_ident returns the entity the innermost scope binds the name to (a
\* local binding wins over a global one), and the lookup fails with the
\* identifier-not-found error naming the identifier exactly when neither the
\* local nor the global scope binds it; so does a call to an undeclared name.
C6_Lookup ==
    [][ pc = "body" =>
          \A name \in Names :
            /\ CompileVariable(name) =>
                 /\ (~Binds(local, name) /\ ~Binds(global, name))
                        <=> (pc' = "failed" /\ err' = <<"IDENT_NOT_FOUND_ERROR", name>>)
                 /\ HasVar(local, name) =>
                        instructions' = Append(instructions,
                            <<"Load32", RESULT_REG,
                              <<"Const", VarNamed(local, name).location[2]>>,
                              FRAME_POINTER>>)
                 /\ (~Binds(local, name) /\ HasVar(global, name)) =>
                        instructions' = Append(instructions,
                            <<"Load32", RESULT_REG,
                              <<"Unknown", VarNamed(global, name).location[2]>>,
                              ZERO_REG>>)
            /\ CompileAssign(name) =>
                 ((~Binds(local, name) /\ ~Binds(global, name))
                      <=> (pc' = "failed" /\ err' = <<"IDENT_NOT_FOUND_ERROR", name>>))
            /\ (CallDone /\ Top.name = name) =>
                 ((~Binds(local, name) /\ ~Binds(global, name))
                      <=> (pc' = "failed" /\ err' = <<"IDENT_NOT_FOUND_ERROR", name>>))
      ]_vars

\* A variable reference was compiled to a frame-relative load while the
\* global scope binds the same name.
C6_Witness ==
    /\ pc = "body"
    /\ \E name \in Names : HasVar(local, name) /\ Binds(global, name)
    /\ Len(instructions) > 0
    /\ instructions[Len(instructions)][1] = "Load32"
    /\ instructions[Len(instructions)][3][1] = "Const"

\* Two resolved types are compatible: equal, or one of them is BottomType
Compatible(a, b) == a = b \/ a = "BottomType" \/ b = "BottomType"

\* C7 as stated: a conditional with no else branch whose then-block type is
\* not Unit is rejected; with an else branch it is rejected when the branch
\* types are mismatched and accepted when they match, BottomType matching
\* any type.
C7_AsStated ==
    [][ \A else_rtype \in Annots :
          LET then_type == resolve_type(Chain, Top.last)
              else_type == resolve_type(Chain, else_rtype)
          IN  (ThenDone(else_rtype) /\ then_type[1] = "Ok") =>
                /\ (~Top.has_else /\ then_type[2] # "Unit") => pc' = "failed"
                /\ (Top.has_else /\ else_type[1] = "Ok") =>
                       (Compatible(else_type[2], then_type[2]) <=> pc' = "body")
      ]_vars

\* C7: a conditional with no else branch is rejected exactly when its
\* then-block type is neither Unit nor BottomType; with an else branch it is
\* rejected (naming the then type as expected and the else type as found)
\* when the branch types are mismatched and accepted when they match,
\* BottomType matching any type.
C7_ConditionalTyping ==
    [][ \A else_rtype \in Annots :
          LET then_type == resolve_type(Chain, Top.last)
              else_type == resolve_type(Chain, else_rtype)
          IN  (ThenDone(else_rtype) /\ then_type[1] = "Ok") =>
                /\ ~Top.has_else =>
                     IF then_type[2] \notin {"Unit", "BottomType"}
                     THEN /\ pc' = "failed"
                          /\ err' = <<"INCORRECT TYPE", "Unit", then_type[2]>>
                          /\ output' = NoOutput
                     ELSE /\ pc' = "body"
                          /\ instructions' = Append(instructions, <<"Label", Top.end_label>>)
                /\ (Top.has_else /\ else_type[1] = "Ok") =>
                     IF Compatible(else_type[2], then_type[2])
                     THEN /\ pc' = "body"
                          /\ stack'[Len(stack')].kind = "else"
                     ELSE /\ pc' = "failed"
                          /\ err' = <<"INCORRECT TYPE", then_type[2], else_type[2]>>
                          /\ output' = NoOutput
      ]_vars

\* A conditional with no else branch was accepted although its then block
\* diverges: its end label follows the jump that leaves the then block.
C7_Witness ==
    /\ pc = "body"
    /\ Len(instructions) >= 3
    /\ Top.kind # "else"
    /\ LET n == Len(instructions) IN
         /\ instructions[n][1] = "Label"
         /\ instructions[n - 1][1] = "Jump"
         /\ instructions[n - 1][2] # instructions[n][2]
         /\ \E i \in 1..(n - 2) :
                /\ instructions[i][1] = "JumpIfZero"
                /\ instructions[i][3] = instructions[n][2]

\* C8: a break compiled while the scope's loop-end stack is empty reports
\* exactly one diagnostic, "'break' outside of loop" with the span of the
\* break, then halts generation: nothing is returned and no instruction, so
\* no jump, is emitted.
C8_BreakOutsideLoop ==
    [][ (CompileBreak /\ local.loop_ends = <<>>) =>
          /\ log = <<>>
          /\ log' = << <<"'break' outside of loop", size'>> >>
          /\ pc' = "failed"
          /\ err'[1] = "fatal_error"
          /\ output' = NoOutput
          /\ instructions' = instructions
      ]_vars

\* A break after a completed loop (the loop's back-jump is in the code) was
\* reported and generation halted.
C8_Witness ==
    /\ pc = "failed"
    /\ err[1] = "fatal_error"
    /\ Len(log) = 1
    /\ log[1][1] = "'break' outside of loop"
    /\ \E i, j \in 1..Len(instructions) :
           /\ i < j
           /\ instructions[i][1] = "Label"
           /\ instructions[j] = <<"Jump", instructions[i][2]>>


\* The names carried by the label-placement instructions of the code so far
PlacedLabels ==
    {instructions[i][2] :
        i \in {k \in 1..Len(instructions) : instructions[k][1] = "Label"}}

\* Every label the generator holds: placed in the code, given to a
\* declaration or a scope, or kept by a construct being compiled
HeldLabels ==
    PlacedLabels
      \cup {global.functions[i].location : i \in 1..Len(global.functions)}
      \cup {global.vars[i].location[2] : i \in 1..Len(global.vars)}
      \cup {global.end_label, local.end_label}
      \cup {local.loop_ends[i] : i \in 1..Len(local.loop_ends)}
      \cup UNION {{stack[i].else_label, stack[i].end_label, stack[i].start_label} :
                     i \in 1..Len(stack)}

\* The names returned by the calls that move the counter from `from` to `to`
Issued(from, to) == {LabelName(n) : n \in from..(to - 1)}

\* C9: the label counter starts at 0 and only grows, by one per label
\* returned; a label that appears anywhere in a step was returned in that
\* step and never before; and no two label-placement instructions carry the
\* same name.
C9_LabelsUnique ==
    [][ /\ (pc = "parse" /\ size = 0) => label_count = 0
        /\ label_count' >= label_count
        /\ (HeldLabels' \ HeldLabels) \subseteq Issued(label_count, label_count')
        /\ Issued(label_count, label_count') \cap HeldLabels = {}
        /\ pc' # "failed" => Issued(label_count, label_count') \subseteq HeldLabels'
        /\ HeldLabels' \subseteq (Issued(0, label_count') \cup {ExitLabel})
        /\ \A i, j \in 1..Len(instructions') :
               (i < j /\ instructions'[i][1] = "Label" /\ instructions'[j][1] = "Label")
                   => instructions'[i][2] # instructions'[j][2]
      ]_vars

\* A successful run whose output places at least four labels.
C9_Witness ==
    /\ pc = "done"
    /\ output = <<"Some", instructions>>
    /\ Cardinality(PlacedLabels) >= 4
    /\ label_count >= 4

\* How many label-placement instructions carry the label
Placements(label) ==
    Cardinality({i \in 1..Len(instructions) : /\ instructions[i][1] = "Label"
                                              /\ instructions[i][2] = label})

\* The failures a program brings on itself: an ill-formed or ill-typed
\* program, or a construct the generator does not support
InputErrors ==
    {"IDENT_SHADOW_ERROR", "IDENT_NOT_FOUND_ERROR", "INCORRECT TYPE",
     "INCORRECT NUMBER OF ARGUMENTS", "EXPECTED_VAR_FOUND_FUNCTION_ERROR",
     "ERROR_EXPECTED_FUNCTION_FOUND_VAR", "fatal_error", "unimplemented",
     "ICE: Functions can't be treated as variables yet"}

\* Generation fails only for a reason found in the program
FailsOnlyOnInput ==
    pc = "failed" =>
        /\ err[1] \in InputErrors
        /\ output = NoOutput
        /\ err[1] = "INCORRECT TYPE" => ~Compatible(err[2], err[3])

\* The label of every declared function and global is placed exactly once
OneLabelPerDeclaration ==
    /\ \A i \in 1..Len(global.functions) :
           Placements(global.functions[i].location) = 1
    /\ \A i \in 1..Len(global.vars) :
           Placements(global.vars[i].location[2]) = 1

SymbolOf(name) == <<name, 0>>

\* The labels the declarations of the global scope were given
DeclaredLabels(scope) ==
    {scope.functions[i].location : i \in 1..Len(scope.functions)}
      \cup {scope.vars[i].location[2] : i \in 1..Len(scope.vars)}

\* The storage of the first n global variables is at the head of the code:
\* for each its label, then its static storage directive
StorageEmitted(n) ==
    \A i \in 1..n :
        /\ Len(instructions) >= 2 * i
        /\ instructions[2 * i - 1] = <<"Label", global.vars[i].location[2]>>
        /\ instructions[2 * i][1] \in {"AllocateWords", "AllocateSpace"}

\* The storage of the global variables compiled so far is in place
StorageInPlace ==
    /\ pc = "globals" => StorageEmitted(idx)
    /\ pc \in {"fns", "body", "done"} => StorageEmitted(Len(global.vars))

\* The label-addressed loads and stores of the code address global variables
AddressesAreGlobals ==
    \A k \in 1..Len(instructions) :
        /\ (instructions[k][1] = "Load32" /\ instructions[k][3][1] = "Unknown") =>
               \E i \in 1..Len(global.vars) :
                   instructions[k][3][2] = global.vars[i].location[2]
        /\ (instructions[k][1] = "Store32" /\ instructions[k][2][1] = "Unknown") =>
               \E i \in 1..Len(global.vars) :
                   instructions[k][2][2] = global.vars[i].location[2]

\* C11 as stated: the Label location registered for every global let uses
\* the variable's own name as the symbol.
C11_AsStated ==
    \A i \in 1..Len(global.vars) :
        global.vars[i].location = <<"Label", SymbolOf(global.vars[i].name)>>

\* C11: the Label location registered for a global let is the fresh label
\* L<n> issued for the declaration, n the number of top-level items before
\* it, never the variable's name; that label is placed in front of the
\* variable's static storage directive, and it is the address of every load
\* and store of the variable.
C11_GlobalLabel ==
    [][ /\ \A name \in Names, var_type \in grammar.ltypes, init \in grammar.inits :
             (ParseLetItem(name, var_type, init) /\ pc' = "parse") =>
                 /\ global'.vars[Len(global'.vars)].name = name
                 /\ global'.vars[Len(global'.vars)].location
                        = <<"Label", LabelName(Len(global.functions) + Len(global.vars))>>
                 /\ LabelName(Len(global.functions) + Len(global.vars))
                        \notin DeclaredLabels(global)
        /\ \A i \in 1..Len(global'.vars) :
               global'.vars[i].location[2] # SymbolOf(global'.vars[i].name)
        /\ StorageInPlace'
        /\ AddressesAreGlobals'
        /\ \A name \in Names :
             /\ (CompileVariable(name) /\ ~Binds(local, name) /\ HasVar(global, name)) =>
                    instructions' = Append(instructions,
                        <<"Load32", RESULT_REG,
                          <<"Unknown", VarNamed(global, name).location[2]>>, ZERO_REG>>)
             /\ (CompileAssign(name) /\ ~Binds(local, name) /\ HasVar(global, name)) =>
                    stack'[Len(stack')].target = VarNamed(global, name).location
        /\ (AssignDone /\ Top.target[1] = "Label") =>
               instructions' = Append(instructions,
                   <<"Store32", <<"Unknown", Top.target[2]>>, ZERO_REG, RESULT_REG>>)
      ]_vars

\* A successful run whose code both loads and stores a global variable
\* through its label.
C11_Witness ==
    /\ pc = "done"
    /\ Len(global.vars) >= 1
    /\ \E k \in 1..Len(instructions) :
           instructions[k][1] = "Load32" /\ instructions[k][3][1] = "Unknown"
    /\ \E k \in 1..Len(instructions) :
           instructions[k][1] = "Store32" /\ instructions[k][2][1] = "Unknown"


IsLoop(frame) == frame.kind = "loop"

\* The end label of a loop being compiled: the label issued right after its
\* start label
EndLabelOf(frame) == LabelName(frame.start_label[2] + 1)

\* The end labels of the loops being compiled, outermost first
EnclosingLoopEnds(stk) ==
    LET loops == SelectSeq(stk, IsLoop)
    IN  [i \in 1..Len(loops) |-> EndLabelOf(loops[i])]

\* C13: a break inside one or more loops emits a jump to the end label of
\* the innermost enclosing loop; compile_loop places that label immediately
\* after the loop's back-jump to its start label; the loop-end stack holds
\* the end labels of the loops being compiled and no others, so it is after
\* compile_loop what it was before, and the pop never finds it empty.
C13_BreakTargetsInnermost ==
    [][ /\ (CompileBreak /\ EnclosingLoopEnds(stack) # <<>>) =>
               LET ends == EnclosingLoopEnds(stack) IN
               /\ pc' = "body"
               /\ instructions' = Append(instructions, <<"Jump", ends[Len(ends)]>>)
               /\ local'.loop_ends = local.loop_ends
        /\ LoopDone =>
               /\ pc' = "body"
               /\ local.loop_ends # <<>>
               /\ instructions' = instructions \o
                      << <<"Jump", Top.start_label>>, <<"Label", EndLabelOf(Top)>> >>
               /\ local'.loop_ends = EnclosingLoopEnds(Pop(stack))
        /\ \A body_rtype \in Annots :
               (CompileLoop(body_rtype) /\ pc' = "body") =>
                   /\ local.loop_ends = EnclosingLoopEnds(stack)
                   /\ instructions' = Append(instructions,
                                             <<"Label", stack'[Len(stack')].start_label>>)
        /\ pc' = "body" => local'.loop_ends = EnclosingLoopEnds(stack')
        /\ pc' = "failed" => err'[1] # "ICE: Missing label after loop"
      ]_vars

\* A break in an outer loop, compiled after an inner loop with a break of
\* its own was completed: the inner loop's end label follows its back-jump,
\* and the last jump targets the outer loop's end label.
C13_Witness ==
    /\ pc = "body"
    /\ Len(local.loop_ends) = 1
    /\ Len(instructions) >= 4
    /\ instructions[Len(instructions)] = <<"Jump", local.loop_ends[1]>>
    /\ \E k \in 2..(Len(instructions) - 1) :
           /\ instructions[k][1] = "Label"
           /\ instructions[k][2] # local.loop_ends[1]
           /\ instructions[k - 1][1] = "Jump"
           /\ \E j \in 1..(k - 2) :
                  /\ instructions[j] = <<"Jump", instructions[k][2]>>
                  /\ \E i \in 1..(j - 1) :
                         instructions[i] = <<"Label", instructions[k - 1][2]>>


\* Where the label is placed in the code
PositionOf(label) ==
    CHOOSE k \in 1..Len(instructions) :
        instructions[k][1] = "Label" /\ instructions[k][2] = label

\* The number of functions whose code has been started
FunctionsStarted ==
    IF pc = "body" THEN idx + 1 ELSE IF pc \in {"fns", "done"} THEN idx ELSE 0

\* The code of the functions started so far follows the storage of all the
\* global variables, in the order the functions were declared in; no other
\* function has code yet
FunctionsInOrder ==
    pc \in {"parse", "globals", "fns", "body", "done"} =>
        /\ \A i \in 1..FunctionsStarted :
               /\ Placements(global.functions[i].location) = 1
               /\ PositionOf(global.functions[i].location) > 2 * Len(global.vars)
               /\ \A j \in 1..(i - 1) :
                      PositionOf(global.functions[j].location)
                          < PositionOf(global.functions[i].location)
        /\ \A i \in (FunctionsStarted + 1)..Len(global.functions) :
               Placements(global.functions[i].location) = 0

\* C12: every declaration is registered in the global scope before any
\* instruction is emitted, and none after; a reference from a function body
\* to a global function or variable resolves wherever the declaration is in
\* the program; in the output the storage of the global variables, in
\* declaration order, precedes the code of the functions, in declaration
\* order.
C12_ProgramOrder ==
    [][ /\ pc' = "parse" => instructions' = <<>>
        /\ pc # "parse" => global' = global
        /\ StorageInPlace'
        /\ FunctionsInOrder'
        /\ \A name \in Names :
             /\ (CompileVariable(name) /\ ~Binds(local, name) /\ HasVar(global, name)) =>
                    /\ pc' = "body"
                    /\ instructions'[Len(instructions')][3]
                           = <<"Unknown", VarNamed(global, name).location[2]>>
             /\ (CallDone /\ Top.name = name /\ ~Binds(local, name)
                   /\ Binds(global, name) /\ ~HasVar(global, name)) =>
                    /\ pc' = "failed" =>
                           err'[1] \in {"INCORRECT NUMBER OF ARGUMENTS", "INCORRECT TYPE"}
                    /\ pc' = "body" =>
                           \E i \in 1..Len(global.functions) :
                               /\ global.functions[i].name = name
                               /\ instructions'[Len(instructions') - 1]
                                      = <<"JumpStore", global.functions[i].location>>
      ]_vars

\* A successful run of a program that declares a function before the
\* global variable the function reads: the storage of the variable is at the
\* head of the output, the load of the variable in the function's code.
C12_Witness ==
    /\ pc = "done"
    /\ Len(global.vars) >= 1
    /\ Len(global.functions) >= 1
    /\ global.functions[1].location[2] < global.vars[1].location[2][2]
    /\ instructions[1] = <<"Label", global.vars[1].location[2]>>
    /\ \E k \in PositionOf(global.functions[1].location)..Len(instructions) :
           /\ instructions[k][1] = "Load32"
           /\ instructions[k][3] = <<"Unknown", global.vars[1].location[2]>>


\* The labels an instruction refers to: the target of a jump, of a
\* jump-if-zero or of a call, the address of a label-addressed load or store
Referenced(ins) ==
    CASE ins[1] \in {"Jump", "JumpStore"} -> {ins[2]}
      [] ins[1] = "JumpIfZero" -> {ins[3]}
      [] ins[1] = "Load32" -> IF ins[3][1] = "Unknown" THEN {ins[3][2]} ELSE {}
      [] ins[1] = "Store32" -> IF ins[2][1] = "Unknown" THEN {ins[2][2]} ELSE {}
      [] OTHER -> {}

\* Every label the output refers to is placed in it exactly once
NoDanglingLabel ==
    pc = "done" =>
        \A k \in 1..Len(instructions) :
            \A label \in Referenced(instructions[k]) : Placements(label) = 1

\* C14: in the output of a successful run every label an instruction refers
\* to (jump, jump-if-zero, call, label-addressed load or store) is placed by
\* exactly one label-placement instruction of the output; a return jumps to
\* the end label of the function being compiled, which compile_global_fn
\* places directly before that function's epilogue.
C14_NoDanglingLabels ==
    [][ /\ NoDanglingLabel'
        /\ (pc = "body" /\ pc' = "body") => local'.end_label = local.end_label
        /\ ReturnDone =>
               /\ instructions' = Append(instructions, <<"Jump", local.end_label>>)
               /\ Placements(local.end_label) = 0
        /\ FnEnd =>
               /\ Len(instructions') = Len(instructions) + 5
               /\ instructions'[Len(instructions) + 1] = <<"Label", local.end_label>>
               /\ instructions'[Len(instructions) + 2]
                      = <<"Load32", RETURN_REG, <<"Const", 4>>, FRAME_POINTER>>
               /\ instructions'[Len(instructions) + 3]
                      = <<"AddSigned", STACK_POINTER, FRAME_POINTER, ZERO_REG>>
               /\ instructions'[Len(instructions) + 4]
                      = <<"Load32", FRAME_POINTER, <<"Const", 0>>, STACK_POINTER>>
               /\ instructions'[Len(instructions) + 5] = <<"JumpR", RETURN_REG>>
               /\ local.end_label \notin DeclaredLabels(global)
      ]_vars

\* A successful run whose output holds a conditional jump, a load of a
\* global variable and a return jump to the end label before the epilogue
\* of the last function.
C14_Witness ==
    /\ pc = "done"
    /\ Len(instructions) >= 5
    /\ instructions[Len(instructions) - 4][1] = "Label"
    /\ \E k \in 1..Len(instructions) :
           instructions[k] = <<"Jump", instructions[Len(instructions) - 4][2]>>
    /\ \E k \in 1..Len(instructions) : instructions[k][1] = "JumpIfZero"
    /\ \E k \in 1..Len(instructions) :
           instructions[k][1] = "Load32" /\ instructions[k][3][1] = "Unknown"

====
